---- MODULE Spec2Model ----
(***************************************************************************)
(* Model of the Yandex Vision OCR scripts: the OCR client (ocr_image of    *)
(* yandex_ocr.py and of the earlier script variants kept in yaclapi3.py),  *)
(* the credential resolver (_resolve_credentials, api.get_iam_token) and   *)
(* the batch pipeline (process_file, main).                                *)
(*                                                                         *)
(* Text is a sequence of tokens: a token is a word or one of the two       *)
(* white-space characters " " and "\n".  A JSON / Python value is a tagged *)
(* record, so that a missing key, a null, an empty list and an empty       *)
(* object stay different values.                                           *)
(***************************************************************************)
EXTENDS Integers, Sequences, FiniteSets, TLC

(***************************************************************************)
(* Python strings                                                          *)
(***************************************************************************)
IsSpace(c) == c \in {" ", "\n"}

RECURSIVE LStrip(_)
LStrip(s) == IF s = <<>> THEN <<>>
             ELSE IF IsSpace(Head(s)) THEN LStrip(Tail(s)) ELSE s

RECURSIVE RStrip(_)
RStrip(s) == IF s = <<>> THEN <<>>
             ELSE IF IsSpace(s[Len(s)]) THEN RStrip(SubSeq(s, 1, Len(s) - 1)) ELSE s

\* str.strip()
Strip(s) == RStrip(LStrip(s))

\* sep.join(parts), parts a sequence of strings
RECURSIVE Join(_, _)
Join(sep, parts) ==
    IF parts = <<>> THEN <<>>
    ELSE IF Len(parts) = 1 THEN parts[1]
    ELSE parts[1] \o sep \o Join(sep, Tail(parts))

(***************************************************************************)
(* Python / JSON values                                                    *)
(***************************************************************************)
PyNone == [t |-> "none"]
PyStr(s) == [t |-> "str", s |-> s]
PyList(xs) == [t |-> "list", xs |-> xs]
PyDict(f) == [t |-> "dict", f |-> f]
EmptyDict == PyDict(<<>>)
EmptyList == PyList(<<>>)

\* the value a failed evaluation stands for (an exception travelling up)
Raised == [t |-> "raised"]

\* bool(v)
Truthy(v) ==
    CASE v.t = "none" -> FALSE
      [] v.t = "str"  -> v.s # <<>>
      [] v.t = "list" -> v.xs # <<>>
      [] v.t = "dict" -> DOMAIN v.f # {}
      [] OTHER -> FALSE

\* v.get(k, default): AttributeError unless v is a dict
Get(v, k, default) ==
    IF v.t # "dict" THEN Raised
    ELSE IF k \in DOMAIN v.f THEN v.f[k] ELSE default

\* v[key]: KeyError or TypeError unless v is a dict that holds key
Subscript(v, key) ==
    IF v.t = "dict" /\ key \in DOMAIN v.f THEN v.f[key] ELSE Raised

\* v[0]
First(v) ==
    CASE v.t = "list" /\ v.xs # <<>> -> v.xs[1]
      [] v.t = "str" /\ v.s # <<>> -> PyStr(<<v.s[1]>>)
      [] OTHER -> Raised

\* k in v
Contains(v, k) ==
    CASE v.t = "dict" -> k \in DOMAIN v.f
      [] v.t = "list" -> \E i \in 1..Len(v.xs) : v.xs[i] = PyStr(<<k>>)
      [] v.t = "str"  -> \E i \in 1..Len(v.s) : v.s[i] = k
      [] OTHER -> FALSE

\* "k in v" raises TypeError on None
ContainsRaises(v) == v.t = "none"

\* the elements "for x in v" visits; TypeError on None.  A dict yields its
\* keys and a string its characters.
CanIter(v) == v.t \in {"list", "str", "dict"}

RECURSIVE SetToSeq(_)
SetToSeq(S) == IF S = {} THEN <<>>
               ELSE LET x == CHOOSE y \in S : TRUE IN <<x>> \o SetToSeq(S \ {x})

Iter(v) ==
    CASE v.t = "list" -> v.xs
      [] v.t = "str"  -> [i \in 1..Len(v.s) |-> PyStr(<<v.s[i]>>)]
      [] v.t = "dict" -> LET ks == SetToSeq(DOMAIN v.f)
                         IN [i \in 1..Len(ks) |-> PyStr(<<ks[i]>>)]
      [] OTHER -> <<>>

(***************************************************************************)
(* Response parser of yandex_ocr.py.  An operator takes the value it tests *)
(* more than once as a parameter.                                          *)
(***************************************************************************)
AnyRaised(rs) == \E i \in DOMAIN rs : rs[i].t = "raised"

\* the concatenation of the lists rs[1].xs, rs[2].xs, ...
RECURSIVE ConcatAll(_)
ConcatAll(rs) == IF rs = <<>> THEN <<>> ELSE rs[1].xs \o ConcatAll(Tail(rs))

\* the list a loop builds from what its passes append, unless a pass raised
Gather(rs) == IF AnyRaised(rs) THEN Raised ELSE PyList(ConcatAll(rs))

\* "for x in c: <Pass(x)>", c the value iterated over
ForEach(ch, Pass(_)) ==
    IF ch.t = "raised" THEN Raised
    ELSE Gather([i \in DOMAIN ch.xs |-> Pass(ch.xs[i])])

\* the elements "for x in c" visits (TypeError when c cannot be iterated)
Elements(c) ==
    IF c.t = "raised" \/ ~CanIter(c) THEN Raised ELSE PyList(Iter(c))

\* mutant: the key is subscripted, as the script variants do
ChildrenOfStrict(v, key) == Elements(Subscript(v, key))

\* the elements visited by "for x in v.get(key, [])"
ChildrenOf(v, key) == Elements(Get(v, key, EmptyList))

\* " ".join(words), if words: ...append(...)
JoinWords(words) ==
    IF words = <<>> THEN EmptyList
    ELSE IF \E i \in DOMAIN words : words[i].t # "str" THEN Raised
    ELSE PyList(<<Join(<<" ">>, [i \in DOMAIN words |-> words[i].s])>>)

\* [w.get("text", "") for w in ws if w.get("text")]
WordTexts(ws) ==
    IF ws.t = "raised" THEN Raised
    ELSE IF \E i \in DOMAIN ws.xs : ws.xs[i].t # "dict" THEN Raised
    ELSE PyList([i \in DOMAIN ws.xs |-> Get(ws.xs[i], "text", PyStr(<<>>))])

KeptWords(texts) ==
    IF texts.t = "raised" THEN Raised
    ELSE JoinWords(SelectSeq(texts.xs, Truthy))

\* yandex_ocr.py:81-83: the text lines one line object contributes
LinesOfLine(line) == KeptWords(WordTexts(ChildrenOf(line, "words")))

\* yandex_ocr.py:80
LinesOfBlock(block) == ForEach(ChildrenOf(block, "lines"), LinesOfLine)

\* yandex_ocr.py:79
LinesOfPage(page) == ForEach(ChildrenOf(page, "blocks"), LinesOfBlock)

\* "\n".join(lines).strip()
JoinedText(lines) ==
    IF lines.t = "raised" THEN Raised ELSE PyStr(Strip(Join(<<"\n">>, lines.xs)))

\* "pages or []"
OrEmpty(pages) == IF Truthy(pages) THEN PyList(Iter(pages)) ELSE EmptyList

\* _extract_text_from_pages: PyStr(text), or Raised
extract_text_from_pages(pages) == JoinedText(ForEach(OrEmpty(pages), LinesOfPage))

\* yandex_ocr.py:185-189: the pages of an item without an error
PagesOfItem(item) ==
    IF Contains(item, "textDetection")
    THEN IF item.t # "dict" THEN Raised
         ELSE Get(item.f["textDetection"], "pages", EmptyList)
    ELSE IF Contains(item, "textAnnotation")
    THEN IF item.t # "dict" THEN Raised
         ELSE Get(item.f["textAnnotation"], "pages", EmptyList)
    ELSE PyNone

\* yandex_ocr.py:193-194: if text_part: all_text_parts.append(text_part)
AppendIfText(text_part) ==
    IF text_part.t = "raised" THEN Raised
    ELSE IF text_part.s # <<>> THEN PyList(<<text_part.s>>)
    ELSE EmptyList

\* yandex_ocr.py:191-199: the warning of the else branch reads item.keys()
PartsOfPages(item, pages) ==
    IF pages.t = "raised" THEN Raised
    ELSE IF Truthy(pages) THEN AppendIfText(extract_text_from_pages(pages))
    ELSE IF item.t # "dict" THEN Raised ELSE EmptyList

\* mutant: an embedded error ends the parse
SkipErrorAborts(err) == Raised

\* yandex_ocr.py:179-183: log the embedded error and skip the item
SkipError(err) ==
    IF err.t = "raised" THEN Raised
    ELSE IF err.t # "dict" THEN Raised
    ELSE EmptyList

\* yandex_ocr.py:177-199, one pass of the inner loop: the text parts the item
\* appends to all_text_parts (none or one), or Raised
PartsOfItem(item) ==
    IF ContainsRaises(item) THEN Raised
    ELSE IF Contains(item, "error") THEN SkipError(Get(item, "error", EmptyDict))
    ELSE PartsOfPages(item, PagesOfItem(item))

\* yandex_ocr.py:173-177
PartsOfInner(inner_results) ==
    IF inner_results.t = "raised" THEN Raised
    ELSE IF ~Truthy(inner_results) THEN EmptyList
    ELSE ForEach(PyList(Iter(inner_results)), PartsOfItem)

\* yandex_ocr.py:171-175, one pass of the outer loop
PartsOfSpec(spec) == PartsOfInner(Get(spec, "results", EmptyList))

NoResultsMarker == <<"[no results]">>
NoTextMarker == <<"[no text]">>
ExtractionErrorMarker == <<"[text extraction error]">>
ParseErrorMarker == <<"[response parse error]">>
RequestErrorMarker == <<"[request error]">>
AuthErrorMarker == <<"[auth error: no credentials]">>
ConfigErrorMarker == <<"[config error: no folder id]">>
StatusErrorMarker(status) == <<"[error " \o ToString(status) \o "]">>

\* yandex_ocr.py:201-205
FinalText(final_text) == IF final_text = <<>> THEN NoTextMarker ELSE final_text

\* yandex_ocr.py:201-213
FinalOfParts(parts) ==
    IF parts.t = "raised" THEN ExtractionErrorMarker
    ELSE FinalText(Strip(Join(<<"\n">>, parts.xs)))

\* yandex_ocr.py:166-171
ParseRoot(root_results) ==
    IF root_results.t = "raised" THEN ExtractionErrorMarker
    ELSE IF ~Truthy(root_results) THEN NoResultsMarker
    ELSE FinalOfParts(ForEach(PyList(Iter(root_results)), PartsOfSpec))

\* yandex_ocr.py:163-213: the string ocr_image returns for a decoded body
ParseResult(result) == ParseRoot(Get(result, "results", EmptyList))

(***************************************************************************)
(* The environment of one ocr_image call: the image file and the answer of *)
(* the service                                                             *)
(***************************************************************************)
SizeCeiling == 1000000
StartQuality == 85
QualityFloor == 30
QualityStep == 5

\* the body of a response that is not JSON at all
NotJson == [t |-> "notjson"]

\* requests.post raised (no response at all)
TransportFailure == [kind |-> "exception"]
Response(status, body) == [kind |-> "response", status |-> status, body |-> body]

\* the size in bytes of the JPEG encoding of img at a quality (PIL img.save):
\* encodings at a quality of at most img.fitq fit the ceiling
EncodedSize(img, quality) ==
    IF quality <= img.fitq THEN SizeCeiling ELSE SizeCeiling + 1

\* mutant: the floor is tested after the step instead of before it
RECURSIVE ReduceQualityPastFloor(_, _)
ReduceQualityPastFloor(img, quality) ==
    IF EncodedSize(img, quality) <= SizeCeiling \/ quality < QualityFloor
    THEN quality
    ELSE ReduceQualityPastFloor(img, quality - QualityStep)

\* yandex_ocr.py:112-118: the quality at which the size-reduction loop stops
RECURSIVE ReduceQuality(_, _)
ReduceQuality(img, quality) ==
    IF EncodedSize(img, quality) <= SizeCeiling \/ quality <= QualityFloor
    THEN quality
    ELSE ReduceQuality(img, quality - QualityStep)

\* the encodings the loop makes, from StartQuality down to the last quality
RECURSIVE EncodeEvents(_, _)
EncodeEvents(quality, last) ==
    IF quality <= last THEN <<[e |-> "encode", q |-> quality]>>
    ELSE <<[e |-> "encode", q |-> quality]>> \o EncodeEvents(quality - QualityStep, last)

(***************************************************************************)
(* ocr_image of yandex_ocr.py                                              *)
(***************************************************************************)
\* _build_auth_headers: the Authorization header and the auth mode
build_auth_headers(iam_token, api_key) ==
    IF Truthy(iam_token)
    THEN [auth |-> PyStr(<<"Bearer ">> \o iam_token.s), mode |-> "iam"]
    ELSE IF Truthy(api_key)
    THEN [auth |-> PyStr(<<"Api-Key ">> \o api_key.s), mode |-> "api_key"]
    ELSE [auth |-> PyNone, mode |-> "none"]

Returned(val, events, file) ==
    [kind |-> "return", val |-> val, events |-> events, file |-> file]
Raises(exc, events, file) ==
    [kind |-> "raise", val |-> <<exc>>, events |-> events, file |-> file]

\* yandex_ocr.py:119-123: the file written back and the events of the reduction
ReducedUpload(file, last) ==
    [file |-> [file EXCEPT !.size = EncodedSize(file, last)],
     events |-> <<[e |-> "stat"], [e |-> "open_image"]>>
                \o EncodeEvents(StartQuality, last)
                \o <<[e |-> "write"], [e |-> "read"]>>]

\* yandex_ocr.py:109-123: the file after the optional size reduction, and the
\* file-system events up to the read of the bytes to upload
PrepareUpload(file) ==
    IF file.size > SizeCeiling
    THEN ReducedUpload(file, ReduceQuality(file, StartQuality))
    ELSE [file |-> file, events |-> <<[e |-> "stat"], [e |-> "read"]>>]

\* mutant: the status of the response is not looked at
HandleOutcomeNoStatusCheck(n) ==
    IF n.kind = "exception" THEN RequestErrorMarker
    ELSE IF n.body.t = "notjson" THEN ParseErrorMarker
    ELSE ParseResult(n.body)

\* yandex_ocr.py:143-213: what ocr_image does with the outcome of the request
HandleOutcome(n) ==
    IF n.kind = "exception" THEN RequestErrorMarker
    ELSE IF n.status # 200 THEN StatusErrorMarker(n.status)
    ELSE IF n.body.t = "notjson" THEN ParseErrorMarker
    ELSE ParseResult(n.body)

\* yandex_ocr.py:122-213: upload and parse
SendRequest(up, h, n) ==
    Returned(HandleOutcome(n), up.events \o <<[e |-> "post", auth |-> h.auth]>>, up.file)

\* mutant: the auth mode is not looked at
CheckAndSendUnguarded(file, folder_id, h, n) ==
    IF ~Truthy(folder_id) THEN Returned(ConfigErrorMarker, <<>>, file)
    ELSE IF ~file.exists THEN Raises("FileNotFoundError", <<[e |-> "stat"]>>, file)
    ELSE SendRequest(PrepareUpload(file), h, n)

\* yandex_ocr.py:100-120
CheckAndSend(file, folder_id, h, n) ==
    IF h.mode = "none" THEN Returned(AuthErrorMarker, <<>>, file)
    ELSE IF ~Truthy(folder_id) THEN Returned(ConfigErrorMarker, <<>>, file)
    ELSE IF ~file.exists THEN Raises("FileNotFoundError", <<[e |-> "stat"]>>, file)
    ELSE SendRequest(PrepareUpload(file), h, n)

\* ocr_image(path, iam_token, folder_id, api_key): file is the state of the
\* file at path, n the outcome of the one request it may send
ocr_image(file, iam_token, folder_id, api_key, n) ==
    CheckAndSend(file, folder_id, build_auth_headers(iam_token, api_key), n)

(***************************************************************************)
(* Credentials: api.get_iam_token and _resolve_credentials                 *)
(***************************************************************************)
\* os.getenv(name, ""): the value of the variable, "" when it is not set
GetEnv(v) == IF v.t = "none" THEN PyStr(<<>>) ELSE v

\* api.py:38: oauth_token or os.getenv("YANDEX_OAUTH_TOKEN", "").strip()
OAuthToken(oauth_token, env_oauth) ==
    IF Truthy(oauth_token) THEN oauth_token ELSE PyStr(Strip(GetEnv(env_oauth).s))

\* Response.raise_for_status(): HTTPError for a 4xx or 5xx status
RaisesForStatus(status) == status >= 400 /\ status < 600

TokenReturned(val, posted) == [kind |-> "return", val |-> val, posted |-> posted]
TokenRaises(exc, posted) == [kind |-> "raise", val |-> PyStr(<<exc>>), posted |-> posted]

\* api.py:48: resp.json().get("iamToken", "")
TokenOfBody(body, lenient) ==
    IF body.t = "notjson"
    THEN IF lenient THEN TokenReturned(PyStr(<<>>), TRUE)
         ELSE TokenRaises("JSONDecodeError", TRUE)
    ELSE IF body.t # "dict" THEN TokenRaises("AttributeError", TRUE)
    ELSE TokenReturned(Get(body, "iamToken", PyStr(<<>>)), TRUE)

\* api.py:45-50: lenient tells whether the JSONDecodeError of the installed
\* requests is a RequestException (requests 2.27 and later) or a plain
\* ValueError (earlier versions)
ExchangeToken(n, lenient) ==
    IF n.kind = "exception" THEN TokenReturned(PyStr(<<>>), TRUE)
    ELSE IF RaisesForStatus(n.status) THEN TokenReturned(PyStr(<<>>), TRUE)
    ELSE TokenOfBody(n.body, lenient)

\* api.py:39-50
TokenFor(token, n, lenient) ==
    IF ~Truthy(token) THEN TokenReturned(PyStr(<<>>), FALSE)
    ELSE ExchangeToken(n, lenient)

\* get_iam_token(oauth_token): env_oauth is YANDEX_OAUTH_TOKEN, n the outcome
\* of the request to the IAM endpoint
get_iam_token(oauth_token, env_oauth, n, lenient) ==
    TokenFor(OAuthToken(oauth_token, env_oauth), n, lenient)

Credentials(iam_token, api_key, posted) ==
    [kind |-> "return", iam_token |-> iam_token, api_key |-> api_key, posted |-> posted]

\* yandex_ocr.py:408-412
CredentialsViaOAuth(r) ==
    IF r.kind = "raise"
    THEN [kind |-> "raise", iam_token |-> PyNone, api_key |-> PyNone, posted |-> r.posted]
    ELSE IF Truthy(r.val) THEN Credentials(r.val, PyNone, r.posted)
    ELSE Credentials(PyNone, PyNone, r.posted)

\* mutant: the API key is looked at first
resolve_credentials_key_first(iam_token, api_key, env_oauth, n, lenient) ==
    IF Truthy(api_key) THEN Credentials(PyNone, api_key, FALSE)
    ELSE IF Truthy(iam_token) THEN Credentials(iam_token, PyNone, FALSE)
    ELSE CredentialsViaOAuth(get_iam_token(PyNone, env_oauth, n, lenient))

\* _resolve_credentials(args), args.iam_token and args.api_key given
resolve_credentials(iam_token, api_key, env_oauth, n, lenient) ==
    IF Truthy(iam_token) THEN Credentials(iam_token, PyNone, FALSE)
    ELSE IF Truthy(api_key) THEN Credentials(PyNone, api_key, FALSE)
    ELSE CredentialsViaOAuth(get_iam_token(PyNone, env_oauth, n, lenient))

\* yandex_ocr.py:349-357: a flag wins over the environment variable, which
\* is the default of the flag
ArgOf(flag, env) == IF flag.t = "none" THEN env ELSE flag

(***************************************************************************)
(* The bodies the service may answer with.  Every level of                 *)
(*   results -> results -> textDetection|textAnnotation -> pages ->        *)
(*   blocks -> lines -> words -> text                                      *)
(* occurs with its key missing, with an empty list, with one element and   *)
(* with two elements; a few bodies carry a value of the wrong type.        *)
(***************************************************************************)
Field(k, v) == PyDict(k :> v)

Pairs(S) == {<<x, y>> : x \in S, y \in S}
Singles(S) == {<<x>> : x \in S}

Word(text) == Field("text", PyStr(text))
Words == {EmptyDict, Word(<<>>), Word(<<"a">>), Word(<<"b">>), Word(<<" ">>)}
WordLists == {<<>>} \cup Singles(Words) \cup Pairs({EmptyDict, Word(<<"a">>), Word(<<"b">>)})

Line(ws) == Field("words", PyList(ws))
Lines == {EmptyDict} \cup {Line(ws) : ws \in WordLists}
CoreLines == {EmptyDict, Line(<<Word(<<"a">>)>>), Line(<<Word(<<"a">>), Word(<<"b">>)>>)}
LineLists == {<<>>} \cup Singles(Lines) \cup Pairs(CoreLines)

Block(ls) == Field("lines", PyList(ls))
Blocks == {EmptyDict} \cup {Block(ls) : ls \in LineLists}
CoreBlocks == {EmptyDict, Block(<<Line(<<Word(<<"a">>)>>)>>)}
BlockLists == {<<>>} \cup Singles(Blocks) \cup Pairs(CoreBlocks)

Page(bs) == Field("blocks", PyList(bs))
Pages == {EmptyDict} \cup {Page(bs) : bs \in BlockLists}
PageA == Page(<<Block(<<Line(<<Word(<<"a">>)>>)>>)>>)
PageB == Page(<<Block(<<Line(<<Word(<<"b">>)>>)>>)>>)
PageLists == {<<>>} \cup Singles(Pages) \cup Pairs({EmptyDict, PageA})

Detection(ps) == Field("pages", PyList(ps))
Detections == {EmptyDict} \cup {Detection(ps) : ps \in PageLists}

ErrorObject == PyDict(("code" :> PyStr(<<"7">>)) @@ ("message" :> PyStr(<<"denied">>)))
ItemA == Field("textDetection", Detection(<<PageA>>))
ItemB == Field("textAnnotation", Detection(<<PageB>>))
ItemError == Field("error", ErrorObject)
ItemErrorWithText == PyDict(("error" :> ErrorObject) @@ ("textDetection" :> Detection(<<PageA>>)))
Items ==
    {EmptyDict, ItemB, ItemError, ItemErrorWithText}
        \cup {Field("textDetection", d) : d \in Detections}
        \cup {Field("textAnnotation", d) : d \in {EmptyDict, Detection(<<>>), Detection(<<EmptyDict>>)}}
CoreItems == {EmptyDict, ItemA, ItemB, ItemError}
\* lists with an error item before, between and after items with text
ErrorItemLists ==
    {<<ItemA, ItemError, ItemB>>, <<ItemError, ItemB, ItemA>>,
     <<ItemA, ItemB, ItemErrorWithText>>}
ItemLists == {<<>>} \cup Singles(Items) \cup Pairs(CoreItems) \cup ErrorItemLists

SpecOf(items) == Field("results", PyList(items))
SpecEntries == {EmptyDict} \cup {SpecOf(items) : items \in ItemLists}
SpecLists == {<<>>} \cup Singles(SpecEntries) \cup Pairs({EmptyDict, SpecOf(<<ItemA>>), SpecOf(<<ItemB>>)})

\* the bodies in which every value has the type the service documents
WellTypedBodies == {EmptyDict} \cup {Field("results", PyList(specs)) : specs \in SpecLists}

\* JSON that is not of the documented shape: an array or null for the body,
\* null where a list or an object is expected
IllTypedBodies ==
    {EmptyList, PyNone,
     Field("results", PyNone),
     Field("results", PyList(<<PyNone>>)),
     Field("results", PyList(<<SpecOf(<<PyNone>>)>>)),
     Field("results", PyList(<<SpecOf(<<Field("error", PyNone)>>)>>)),
     Field("results", PyList(<<SpecOf(<<Field("textDetection", PyNone)>>)>>)),
     Field("results", PyList(<<SpecOf(<<Field("textDetection", Field("pages", PyNone))>>)>>)),
     Field("results", PyList(<<SpecOf(<<Field("textDetection",
         Detection(<<Field("blocks", PyNone)>>))>>)>>)),
     Field("results", PyList(<<SpecOf(<<Field("textDetection",
         Detection(<<Page(<<Block(<<Line(<<Field("text", PyNone)>>)>>)>>)>>))>>)>>))}

Bodies == WellTypedBodies \cup IllTypedBodies \cup {NotJson}

\* the bodies the script variants are tried on
LegacyBodies ==
    {NotJson, EmptyDict, EmptyList,
     Field("results", PyList(<<>>)),
     Field("results", PyList(<<SpecOf(<<ItemA>>)>>)),
     Field("results", PyList(<<SpecOf(<<ItemB>>)>>)),
     Field("results", PyList(<<SpecOf(<<ItemError, ItemA>>)>>)),
     Field("results", PyList(<<SpecOf(<<Field("textDetection", Detection(<<Page(<<Block(<<
         Line(<<Word(<<"a">>), Word(<<"b">>)>>), EmptyDict>>)>>)>>))>>)>>))}

\* what the service answers to one request: an HTTP status, or no response at
\* all (the transport failed and requests.post raised)
NoResponse == 0
Answers == {200, 429, 500, NoResponse}

\* the bodies that may come with a status
BodiesOf(status) == IF status = 200 THEN Bodies ELSE {NotJson, EmptyDict}

\* the outcome of a request answered by `answer` with `body`
Outcome(answer, body) ==
    IF answer = NoResponse THEN TransportFailure ELSE Response(answer, body)

\* no request was sent
NoOutcome == [kind |-> "none"]

(***************************************************************************)
(* ocr_image of the script variants of yaclapi3.py: "api" is lines 140-192 *)
(* (yandex cloud api.py), "api2" is lines 240-279 (yandex cloud api2.py)   *)
(***************************************************************************)
max_retries == 5

LegacyClients == {"api", "api2"}

\* yaclapi3.py:162 and :254
InitialDelay(c) == IF c = "api" THEN 101 ELSE 5

\* yaclapi3.py:169 and :260
NextDelay(d) == d * 2

\* mutant: one pass too many
LoopContinuesOffByOne(n) == n <= max_retries

\* yaclapi3.py:163 and :255: the loop makes another pass
LoopContinues(n) == n < max_retries

\* yaclapi3.py:187-188: ' '.join(words) + '\n' of one line
LegacyJoinWords(texts) ==
    IF texts.t = "raised" THEN Raised
    ELSE IF \E i \in DOMAIN texts.xs : texts.xs[i].t # "str" THEN Raised
    ELSE PyList(Join(<<" ">>, [i \in DOMAIN texts.xs |-> texts.xs[i].s]) \o <<"\n">>)

LegacyTextOfLine(line) == LegacyJoinWords(WordTexts(ChildrenOf(line, "words")))

LegacyTextOfBlock(block) == ForEach(ChildrenOf(block, "lines"), LegacyTextOfLine)

LegacyTextOfPage(page) == ForEach(ChildrenOf(page, "blocks"), LegacyTextOfBlock)

\* v[key], v itself the result of a subscription that may have raised
Sub(v, key) == IF v.t = "raised" THEN Raised ELSE Subscript(v, key)
Sub0(v) == IF v.t = "raised" THEN Raised ELSE First(v)

\* yaclapi3.py:183 and :269: result['results'][0]['results'][0]['textDetection']['pages']
LegacyPages(result) ==
    Sub(Sub(Sub0(Sub(Sub0(Sub(result, "results")), "results")), "textDetection"), "pages")

\* yaclapi3.py:183-188 and :269-275: the accumulated text as a list of
\* characters, or Raised
LegacyText(result) == ForEach(Elements(LegacyPages(result)), LegacyTextOfPage)

\* the markers of the script variants, "[ошибка извлечения текста]" and
\* "[ошибка <status>]", in Latin letters
LegacyExtractionMarker == <<"[oshibka izvlecheniya teksta]">>
LegacyStatusMarker(status) == <<"[oshibka " \o ToString(status) \o "]">>

\* yaclapi3.py:189-192 and :276-279
LegacyReturn(text) ==
    IF text.t = "raised"
    THEN [kind |-> "return", val |-> LegacyExtractionMarker]
    ELSE [kind |-> "return", val |-> Strip(text.xs)]

\* yaclapi3.py:179-192 ("api": resp.json() stands before the try) and
\* :266-279 ("api2": resp.json() stands inside the try)
LegacyParse(c, body) ==
    IF body.t = "notjson"
    THEN IF c = "api" THEN [kind |-> "raise", val |-> <<"JSONDecodeError">>]
         ELSE [kind |-> "return", val |-> LegacyExtractionMarker]
    ELSE LegacyReturn(LegacyText(body))

(***************************************************************************)
(* State                                                                   *)
(***************************************************************************)
VARIABLES
    client,     \* the ocr_image under call: "yandex_ocr", "api" or "api2"
    cpc,        \* its position: "call", "loop", "parse", "done"
    call,       \* its arguments and the file at path
    script,     \* what the service answers to the 1st, 2nd, ... request
    attempt,    \* the loop variable of the script variants
    delay,      \* the current backoff delay of the script variants
    events,     \* the file, network and sleep events so far, in order
    net,        \* the outcome of the last request (resp)
    outcome     \* how the call ended: a returned string or an exception

clientVars == <<client, cpc, call, script, attempt, delay, events, net, outcome>>

VARIABLES
    kpc,        \* credential resolution: "args", "resolve", "headers", "done"
    setting,    \* the flags and environment variables of the run
    args,       \* args.iam_token and args.api_key after parse_args
    exchange,   \* the outcome of the request to the IAM endpoint
    creds,      \* what _resolve_credentials or get_iam_token ended with
    headers     \* what _build_auth_headers returns for the credentials

credVars == <<kpc, setting, args, exchange, creds, headers>>

VARIABLES
    mpc,        \* main: "start", "prepare", "loop", the steps of process_file,
                \* "done", "exit" (SystemExit), "crashed" (uncaught exception)
    margs,      \* the arguments parse_args returned, and the environment
    mcreds,     \* the credentials main resolved
    exit_message,     \* the message of the SystemExit, if any
    outdir,     \* whether args.output_dir exists
    files,      \* the list find_input_files returned
    idx,        \* the index in files of the file under processing
    npages,     \* the pages of the file under processing, -1 while unknown
    pending,    \* the pages still to be stored and enhanced
    images,     \* process_file's images
    page_texts, \* process_file's page_texts
    document,   \* process_file's document
    scratch,    \* the stems whose scratch directory tmp_dir/<stem> exists
    docs,       \* the per-file documents on disk, by stem
    combined_results,
    merged,     \* the merged output on disk
    log         \* one record per file main has finished with

pipeVars == <<mpc, margs, mcreds, exit_message, outdir, files, idx, npages, pending, images,
              page_texts, document, scratch, docs, combined_results, merged, log>>

VARIABLES
    rpc,        \* resolve_input: "call", "done"
    cwd_tree,   \* the entries under the current working directory
    target,     \* the path resolve_input is called with, as its parts
    searched,   \* whether the working directory tree was searched
    resolution  \* what resolve_input returned or raised

inputVars == <<rpc, cwd_tree, target, searched, resolution>>

vars == <<clientVars, credVars, pipeVars, inputVars>>

Idle == [kind |-> "idle"]

\* resolve_input is not under call
InputIdle ==
    /\ rpc = "idle"
    /\ cwd_tree = {}
    /\ target = <<>>
    /\ searched = FALSE
    /\ resolution = Idle

\* main is not running
PipeIdle ==
    /\ mpc = "idle"
    /\ margs = Idle
    /\ mcreds = Idle
    /\ exit_message = <<>>
    /\ outdir = FALSE
    /\ files = <<>>
    /\ idx = 0
    /\ npages = -1
    /\ pending = <<>>
    /\ images = <<>>
    /\ page_texts = <<>>
    /\ document = <<>>
    /\ scratch = {}
    /\ docs = <<>>
    /\ combined_results = <<>>
    /\ merged = Idle
    /\ log = <<>>

(***************************************************************************)
(* One call of ocr_image                                                   *)
(***************************************************************************)
Clients == {"yandex_ocr"} \cup LegacyClients

\* the answers the service has ready: enough of them to go on after the last
\* attempt a client allows itself
MaxAnswers == 6
YandexAnswers == 2

RECURSIVE SeqsOfLen(_, _)
SeqsOfLen(S, n) ==
    IF n = 0 THEN {<<>>}
    ELSE {<<x>> \o t : x \in S, t \in SeqsOfLen(S, n - 1)}

Scripts(c) == IF c = "yandex_ocr" THEN SeqsOfLen(Answers, YandexAnswers)
              ELSE SeqsOfLen(Answers, MaxAnswers)

OptionalStrings == {PyNone, PyStr(<<>>), PyStr(<<"secret">>)}

MissingFile == [exists |-> FALSE, size |-> 0, fitq |-> 0]
SmallFile == [exists |-> TRUE, size |-> SizeCeiling, fitq |-> StartQuality]
BigFiles == {[exists |-> TRUE, size |-> SizeCeiling + 1, fitq |-> q] :
                q \in {StartQuality, StartQuality - QualityStep, QualityFloor,
                       QualityFloor - QualityStep}}
Files == {MissingFile, SmallFile} \cup BigFiles

\* the script variants take the token and the folder from module globals
\* (yaclapi3.py:121-122, :226-227)
Calls(c) ==
    IF c = "yandex_ocr"
    THEN [file : Files, iam_token : OptionalStrings, api_key : OptionalStrings,
          folder_id : {PyStr(<<>>), PyStr(<<"folder">>)}]
    ELSE [file : {MissingFile, SmallFile}, iam_token : {PyStr(<<"IAM_TOKEN">>)},
          api_key : {PyNone}, folder_id : {PyStr(<<"FOLDER_ID">>)}]

InitClient ==
    /\ client \in Clients
    /\ call \in Calls(client)
    /\ script \in Scripts(client)
    /\ cpc = "call"
    /\ attempt = 0
    /\ delay = 0
    /\ events = <<>>
    /\ net = NoOutcome
    /\ outcome = [kind |-> "none"]
    /\ kpc = "idle"
    /\ setting = Idle
    /\ args = Idle
    /\ exchange = Idle
    /\ creds = Idle
    /\ headers = Idle
    /\ PipeIdle
    /\ InputIdle

Posts(evs) == SelectSeq(evs, LAMBDA ev : ev.e = "post")
Sleeps(evs) == SelectSeq(evs, LAMBDA ev : ev.e = "sleep")
BackoffSleeps(evs) == SelectSeq(evs, LAMBDA ev : ev.e = "sleep" /\ ev.why = "backoff")

\* how a call ended, and the file it leaves at path
Ended(r, file) == [kind |-> r.kind, val |-> r.val, file |-> file]

\* the state after a call that ended as r, n the outcome of its request
CallEnds(r, n) ==
    /\ net' = IF Posts(r.events) # <<>> THEN n ELSE NoOutcome
    /\ events' = r.events
    /\ attempt' = Len(Posts(r.events))
    /\ outcome' = Ended(r, r.file)

\* a call that sends nothing is the same whatever the service would answer
Consumes(c, body) ==
    \/ body = EmptyDict
    \/ /\ build_auth_headers(c.iam_token, c.api_key).mode # "none"
       /\ Truthy(c.folder_id)
       /\ c.file.exists

\* yandex_ocr.py:96-213, the whole call
OcrImageCall ==
    /\ client = "yandex_ocr"
    /\ cpc = "call"
    /\ \E body \in BodiesOf(script[1]) :
          /\ Consumes(call, body)
          /\ CallEnds(ocr_image(call.file, call.iam_token, call.folder_id, call.api_key,
                                Outcome(script[1], body)),
                      Outcome(script[1], body))
    /\ cpc' = "done"
    /\ UNCHANGED <<client, call, script, delay>>

\* yaclapi3.py:141-142 and :162 (:241-242 and :254): read the file, set the delay
LegacyStart ==
    /\ client \in LegacyClients
    /\ cpc = "call"
    /\ IF call.file.exists
       THEN /\ events' = <<[e |-> "read"]>>
            /\ delay' = InitialDelay(client)
            /\ cpc' = "loop"
            /\ UNCHANGED outcome
       ELSE /\ outcome' = [kind |-> "raise", val |-> <<"FileNotFoundError">>, file |-> call.file]
            /\ cpc' = "done"
            /\ UNCHANGED <<events, delay>>
    /\ UNCHANGED <<client, call, script, attempt, net>>

\* yaclapi3.py:163-177 and :255-264: one pass of the retry loop
LegacyAttempt ==
    /\ client \in LegacyClients
    /\ cpc = "loop"
    /\ LoopContinues(attempt)
    /\ LET answer == script[attempt + 1]
           post == [e |-> "post", auth |-> PyStr(<<"Bearer ">> \o call.iam_token.s)]
       IN \E body \in BodiesOf(answer) \cap LegacyBodies :
             /\ net' = Outcome(answer, body)
             /\ CASE answer = NoResponse ->
                       /\ events' = Append(events, post)
                       /\ outcome' = [kind |-> "raise", val |-> <<"ConnectionError">>, file |-> call.file]
                       /\ cpc' = "done"
                       /\ UNCHANGED <<attempt, delay>>
                  [] answer = 429 ->
                       /\ events' = events \o <<post, [e |-> "sleep", d |-> delay, why |-> "backoff"]>>
                       /\ delay' = NextDelay(delay)
                       /\ attempt' = attempt + 1
                       /\ UNCHANGED <<cpc, outcome>>
                  [] answer \notin {NoResponse, 429, 200} ->
                       /\ events' = Append(events, post)
                       /\ outcome' = [kind |-> "return", val |-> LegacyStatusMarker(answer), file |-> call.file]
                       /\ cpc' = "done"
                       /\ UNCHANGED <<attempt, delay>>
                  [] answer = 200 ->
                       /\ events' = IF client = "api"
                                    THEN events \o <<post, [e |-> "sleep", d |-> 2, why |-> "base"]>>
                                    ELSE Append(events, post)
                       /\ cpc' = "parse"
                       /\ UNCHANGED <<attempt, delay, outcome>>
    /\ UNCHANGED <<client, call, script>>

\* the loop ran out of passes: resp is the last rate-limit response
LegacyExhausted ==
    /\ client \in LegacyClients
    /\ cpc = "loop"
    /\ ~LoopContinues(attempt)
    /\ cpc' = "parse"
    /\ UNCHANGED <<client, call, script, attempt, delay, events, net, outcome>>

\* yaclapi3.py:179-192 and :266-279
LegacyExtract ==
    /\ client \in LegacyClients
    /\ cpc = "parse"
    /\ outcome' = Ended(LegacyParse(client, net.body), call.file)
    /\ cpc' = "done"
    /\ UNCHANGED <<client, call, script, attempt, delay, events, net>>

NextClient ==
    \/ OcrImageCall /\ UNCHANGED <<credVars, pipeVars, inputVars>>
    \/ LegacyStart /\ UNCHANGED <<credVars, pipeVars, inputVars>>
    \/ LegacyAttempt /\ UNCHANGED <<credVars, pipeVars, inputVars>>
    \/ LegacyExhausted /\ UNCHANGED <<credVars, pipeVars, inputVars>>
    \/ LegacyExtract /\ UNCHANGED <<credVars, pipeVars, inputVars>>

SpecClient == InitClient /\ [][NextClient]_vars

(***************************************************************************)
(* Claims about the OCR client (SpecClient)                                *)
(***************************************************************************)
NumPosts == Len(Posts(events))

CallOver == cpc = "done"

\* the loop of a script variant is over
LoopOver == cpc \in {"parse", "done"} /\ Posts(events) # <<>>

\* the number of rate-limit answers the script starts with
RECURSIVE LeadingRateLimits(_)
LeadingRateLimits(s) ==
    IF s = <<>> \/ Head(s) # 429 THEN 0 ELSE 1 + LeadingRateLimits(Tail(s))

\* the strings by which an ocr_image tells a failed page
FailureMarkers ==
    {RequestErrorMarker, ParseErrorMarker, ExtractionErrorMarker, NoResultsMarker,
     AuthErrorMarker, ConfigErrorMarker, LegacyExtractionMarker}
        \cup {StatusErrorMarker(st) : st \in Answers}
        \cup {LegacyStatusMarker(st) : st \in Answers}

ReturnedFailure == outcome.kind = "return" /\ outcome.val \in FailureMarkers

\* C1 (as claimed): a rate-limit answer that is not the last attempt allowed is
\* followed by a wait and another request, and a call whose requests were all
\* answered 429 ends by returning a failure marker.
C1_RateLimitRetried ==
    (CallOver /\ NumPosts >= 1) =>
        /\ \A i \in 1..NumPosts :
              (script[i] = 429 /\ i < max_retries) =>
                  /\ NumPosts > i
                  /\ Len(BackoffSleeps(events)) >= i
        /\ (\A i \in 1..NumPosts : script[i] = 429) => ReturnedFailure

\* C2: the script variants send exactly k+1 requests for k rate-limit answers
\* followed by another answer (k below max_retries) and stop there, never send
\* more than max_retries requests, and wait InitialDelay, then twice the
\* previous wait, after each rate-limit answer.
C2_RetryUntilSuccessOrCap ==
    client \in LegacyClients =>
        /\ NumPosts <= max_retries
        /\ \A i \in 1..NumPosts : i < NumPosts => script[i] = 429
        /\ LoopOver =>
              /\ NumPosts = IF LeadingRateLimits(script) < max_retries
                            THEN LeadingRateLimits(script) + 1 ELSE max_retries
              /\ Len(BackoffSleeps(events))
                    = IF LeadingRateLimits(script) < max_retries
                      THEN LeadingRateLimits(script) ELSE max_retries
        /\ \A i \in DOMAIN BackoffSleeps(events) :
              /\ BackoffSleeps(events)[i].d
                    = IF i = 1 THEN InitialDelay(client)
                      ELSE 2 * BackoffSleeps(events)[i - 1].d
              /\ i > 1 => BackoffSleeps(events)[i].d >= BackoffSleeps(events)[i - 1].d

\* two rate-limit answers, then a 200: three requests, two waits, and the text
C2_Witness ==
    /\ client = "api2"
    /\ CallOver
    /\ LeadingRateLimits(script) = 2
    /\ script[3] = 200
    /\ NumPosts = 3
    /\ Len(BackoffSleeps(events)) = 2
    /\ outcome = [kind |-> "return", val |-> <<"a">>, file |-> call.file]

\* C3: a status other than 200 and 429, or no response at all, ends
\* yandex_ocr's ocr_image after its one request, without a wait, with the
\* failure marker of the status or of the request; a script variant answered by
\* such a status sends nothing more, does not wait for it and returns the
\* marker of the status.
C3_NoRetryOnPermanentFailure ==
    /\ (client = "yandex_ocr" /\ CallOver /\ net.kind = "exception") =>
          /\ NumPosts = 1
          /\ Sleeps(events) = <<>>
          /\ outcome.kind = "return" /\ outcome.val = RequestErrorMarker
    /\ (client = "yandex_ocr" /\ CallOver /\ net.kind = "response"
            /\ net.status \notin {200, 429}) =>
          /\ NumPosts = 1
          /\ Sleeps(events) = <<>>
          /\ outcome.kind = "return" /\ outcome.val = StatusErrorMarker(net.status)
    /\ (client \in LegacyClients /\ net.kind = "response"
            /\ net.status \notin {200, 429}) =>
          /\ CallOver
          /\ events[Len(events)].e = "post"
          /\ NumPosts = LeadingRateLimits(script) + 1
          /\ Len(Sleeps(events)) = LeadingRateLimits(script)
          /\ outcome.kind = "return" /\ outcome.val = LegacyStatusMarker(net.status)

\* yandex_ocr's client answered by a 500, and by no response at all
C3_Witness ==
    /\ client = "yandex_ocr"
    /\ CallOver
    /\ net.kind = "response" /\ net.status = 500
    /\ NumPosts = 1
    /\ outcome.val = StatusErrorMarker(500)

\* C7: without a bearer token and without an API key, ocr_image returns the
\* credentials error and has touched neither the network nor the file.
C7_NoCredentialsFailFast ==
    (client = "yandex_ocr" /\ CallOver /\ ~Truthy(call.iam_token) /\ ~Truthy(call.api_key)) =>
        /\ outcome.kind = "return"
        /\ outcome.val = AuthErrorMarker
        /\ events = <<>>
        /\ net = NoOutcome
        /\ outcome.file = call.file

\* a call without credentials on a file that is over the size ceiling
C7_Witness ==
    /\ client = "yandex_ocr"
    /\ CallOver
    /\ call.iam_token = PyNone /\ call.api_key = PyStr(<<>>)
    /\ Truthy(call.folder_id)
    /\ call.file.exists /\ call.file.size > SizeCeiling
    /\ outcome.val = AuthErrorMarker

\* the characters of every string of a decoded body
RECURSIVE Tokens(_)
Tokens(v) ==
    CASE v.t = "str"  -> {v.s[i] : i \in DOMAIN v.s}
      [] v.t = "list" -> UNION {Tokens(v.xs[i]) : i \in DOMAIN v.xs}
      [] v.t = "dict" -> UNION {Tokens(v.f[k]) : k \in DOMAIN v.f}
      [] OTHER -> {}

\* the body holds no text but white space
HasNoText(body) == \A c \in Tokens(body) : IsSpace(c)

\* the top-level "results" is missing or empty
RootEmpty(body) == "results" \notin DOMAIN body.f \/ ~Truthy(body.f["results"])

\* a 200 answer whose body has the documented types, with any keys missing
AnsweredWellTyped ==
    /\ client = "yandex_ocr"
    /\ CallOver
    /\ net.kind = "response"
    /\ net.status = 200
    /\ net.body \in WellTypedBodies

\* C10 (as claimed): whenever no text is extracted from a 200 response with
\* missing keys, ocr_image returns the "[no text]" marker.
C10_NoTextMarkerWheneverEmpty ==
    (AnsweredWellTyped /\ HasNoText(net.body)) =>
        (outcome.kind = "return" /\ outcome.val = NoTextMarker)

\* C10 (amended): a 200 response with keys missing at any level never makes
\* the parser raise and never yields an empty string; without text the result
\* is "[no results]" when the top-level results is missing or empty and
\* "[no text]" otherwise, and a text result is stripped text of the body.
C10_MissingKeysTolerated ==
    AnsweredWellTyped =>
        /\ outcome.kind = "return"
        /\ outcome.val \notin {<<>>, ExtractionErrorMarker, ParseErrorMarker}
        /\ (outcome.val = NoResultsMarker) <=> RootEmpty(net.body)
        /\ (HasNoText(net.body) /\ ~RootEmpty(net.body)) => outcome.val = NoTextMarker
        /\ outcome.val \notin {NoResultsMarker, NoTextMarker} =>
              /\ Strip(outcome.val) = outcome.val
              /\ \A i \in DOMAIN outcome.val :
                    outcome.val[i] \in Tokens(net.body) \cup {" ", "\n"}

\* a page without "blocks" in the only item: "[no text]"
C10_Witness ==
    /\ AnsweredWellTyped
    /\ net.body = Field("results", PyList(<<SpecOf(<<Field("textDetection",
                        Detection(<<EmptyDict>>))>>)>>))
    /\ outcome.val = NoTextMarker

\* the items of a list that carry no "error"
DropErrorItems(items) == SelectSeq(items, LAMBDA item : "error" \notin DOMAIN item.f)

\* a spec entry, and a body, with the error items taken out
SpecWithoutErrors(spec) ==
    IF "results" \in DOMAIN spec.f
    THEN Field("results", PyList(DropErrorItems(spec.f["results"].xs)))
    ELSE spec

BodyWithoutErrors(body) ==
    IF "results" \in DOMAIN body.f
    THEN Field("results", PyList([i \in DOMAIN body.f["results"].xs |->
                                     SpecWithoutErrors(body.f["results"].xs[i])]))
    ELSE body

\* C11: ocr_image returns for a 200 response with error items what the parser
\* gives for the same response with the error items taken out: they are
\* skipped wherever they stand, and the items around them keep their text and
\* their order.
C11_ErrorItemsSkipped ==
    AnsweredWellTyped =>
        /\ outcome.kind = "return"
        /\ outcome.val = ParseResult(BodyWithoutErrors(net.body))
        /\ outcome.val # ExtractionErrorMarker

\* an error item between two items with text: the text is "a\nb"
C11_Witness ==
    /\ AnsweredWellTyped
    /\ net.body = Field("results", PyList(<<SpecOf(<<ItemA, ItemError, ItemB>>)>>))
    /\ outcome.val = <<"a", "\n", "b">>

\* the encodings a call made, in order
Encodings(evs) == SelectSeq(evs, LAMBDA ev : ev.e = "encode")

\* ocr_image got as far as the size test on a file over the ceiling
Oversized ==
    /\ client = "yandex_ocr"
    /\ CallOver
    /\ build_auth_headers(call.iam_token, call.api_key).mode # "none"
    /\ Truthy(call.folder_id)
    /\ call.file.exists
    /\ call.file.size > SizeCeiling

\* the most encodings the loop can make: one per quality from 85 down to 30
MostEncodings == (StartQuality - QualityFloor) \div QualityStep + 1

\* C12: on a file over the ceiling the loop encodes at 85, 80, ... and stops
\* at the first quality whose encoding fits the ceiling, or at the floor 30,
\* after at most 12 encodings; the file is rewritten once, after the last
\* encoding and with its bytes, and is then read for the upload; a file
\* within the ceiling is not encoded or rewritten at all.
C12_SizeReductionBounded ==
    /\ Oversized =>
          /\ Len(Encodings(events)) \in 1..MostEncodings
          /\ MostEncodings = 12
          /\ \A i \in DOMAIN Encodings(events) :
                /\ Encodings(events)[i].q = StartQuality - (i - 1) * QualityStep
                /\ i < Len(Encodings(events)) =>
                      /\ EncodedSize(call.file, Encodings(events)[i].q) > SizeCeiling
                      /\ Encodings(events)[i].q > QualityFloor
          /\ \/ EncodedSize(call.file, Encodings(events)[Len(Encodings(events))].q) <= SizeCeiling
             \/ Encodings(events)[Len(Encodings(events))].q = QualityFloor
          /\ outcome.file.size
                = EncodedSize(call.file, Encodings(events)[Len(Encodings(events))].q)
          /\ outcome.file.size <= SizeCeiling
                \/ Encodings(events)[Len(Encodings(events))].q = QualityFloor
          /\ SubSeq(events, 1, Len(Encodings(events)) + 4)
                = <<[e |-> "stat"], [e |-> "open_image"]>> \o Encodings(events)
                  \o <<[e |-> "write"], [e |-> "read"]>>
    /\ (client = "yandex_ocr" /\ CallOver /\ call.file.size <= SizeCeiling) =>
          /\ Encodings(events) = <<>>
          /\ outcome.file = call.file

\* an image that does not fit at any quality: 12 encodings, the last at the
\* floor, and the file written back is still over the ceiling
C12_Witness ==
    /\ Oversized
    /\ Len(Encodings(events)) = 12
    /\ Encodings(events)[12].q = QualityFloor
    /\ outcome.file.size > SizeCeiling
    /\ NumPosts = 1

(***************************************************************************)
(* Credential resolution: main's _resolve_credentials followed by the      *)
(* header of the OCR request, and a direct call of api.get_iam_token       *)
(***************************************************************************)
\* a flag or environment variable: not given, empty, blank, or a value
FlagValues(v) == {PyNone, PyStr(<<>>), PyStr(<<v>>)}
OAuthValues == {PyNone, PyStr(<<>>), PyStr(<<" ">>), PyStr(<<" ", "oauth", " ">>)}

IamStatuses == {200, 202, 401, 500}

\* bodies of the IAM endpoint: the token is a string or null when present
IamBodies ==
    {NotJson, EmptyList, PyNone, EmptyDict,
     Field("iamToken", PyStr(<<"iam">>)),
     Field("iamToken", PyStr(<<>>)),
     Field("iamToken", PyNone),
     PyDict(("iamToken" :> PyStr(<<"iam">>)) @@ ("expiresAt" :> PyStr(<<"2025">>)))}

IamBodiesOf(status) == IF RaisesForStatus(status) THEN {NotJson, EmptyDict} ELSE IamBodies

IamOutcomes ==
    {TransportFailure}
        \cup UNION {{Response(st, b) : b \in IamBodiesOf(st)} : st \in IamStatuses}

Settings ==
    [entry : {"main"},
     flag_iam : FlagValues("iam-flag"), flag_key : FlagValues("key-flag"),
     env_iam : FlagValues("iam-env"), env_key : FlagValues("key-env"),
     env_oauth : OAuthValues, oauth_arg : {PyNone}, lenient : BOOLEAN]
      \cup
    [entry : {"get_iam_token"},
     flag_iam : {PyNone}, flag_key : {PyNone}, env_iam : {PyNone}, env_key : {PyNone},
     env_oauth : OAuthValues, oauth_arg : FlagValues("oauth-arg"), lenient : BOOLEAN]

InitCred ==
    /\ setting \in Settings
    /\ kpc = IF setting.entry = "main" THEN "args" ELSE "token"
    /\ args = Idle
    /\ exchange = NoOutcome
    /\ creds = Idle
    /\ headers = Idle
    /\ client = "none"
    /\ cpc = "idle"
    /\ call = Idle
    /\ script = <<>>
    /\ attempt = 0
    /\ delay = 0
    /\ events = <<>>
    /\ net = NoOutcome
    /\ outcome = Idle
    /\ PipeIdle
    /\ InputIdle

\* yandex_ocr.py:349-357, parse_args
ParseArgs ==
    /\ kpc = "args"
    /\ args' = [iam_token |-> ArgOf(setting.flag_iam, setting.env_iam),
                api_key |-> ArgOf(setting.flag_key, setting.env_key)]
    /\ kpc' = "resolve"
    /\ UNCHANGED <<setting, exchange, creds, headers>>

\* the state after a resolution that ended as r, n the outcome of its request
ResolutionEnds(r, n) ==
    /\ r.posted \/ n = TransportFailure
    /\ creds' = r
    /\ exchange' = IF r.posted THEN n ELSE NoOutcome
    /\ kpc' = IF r.kind = "raise" THEN "done" ELSE "headers"

\* yandex_ocr.py:422, _resolve_credentials(args)
ResolveCredentials ==
    /\ kpc = "resolve"
    /\ \E n \in IamOutcomes :
          ResolutionEnds(resolve_credentials(args.iam_token, args.api_key,
                                             setting.env_oauth, n, setting.lenient), n)
    /\ UNCHANGED <<setting, args, headers>>

\* yandex_ocr.py:100, the header ocr_image builds from the credentials
BuildAuthHeaders ==
    /\ kpc = "headers"
    /\ headers' = build_auth_headers(creds.iam_token, creds.api_key)
    /\ kpc' = "done"
    /\ UNCHANGED <<setting, args, exchange, creds>>

\* the state after a call of get_iam_token that ended as r
TokenCallEnds(r, n) ==
    /\ r.posted \/ n = TransportFailure
    /\ creds' = r
    /\ exchange' = IF r.posted THEN n ELSE NoOutcome
    /\ kpc' = "done"

\* api.py:21-50, get_iam_token(oauth_token)
GetIamTokenCall ==
    /\ kpc = "token"
    /\ \E n \in IamOutcomes :
          TokenCallEnds(get_iam_token(setting.oauth_arg, setting.env_oauth, n,
                                      setting.lenient), n)
    /\ UNCHANGED <<setting, args, headers>>

NextCred ==
    \/ ParseArgs /\ UNCHANGED <<clientVars, pipeVars, inputVars>>
    \/ ResolveCredentials /\ UNCHANGED <<clientVars, pipeVars, inputVars>>
    \/ BuildAuthHeaders /\ UNCHANGED <<clientVars, pipeVars, inputVars>>
    \/ GetIamTokenCall /\ UNCHANGED <<clientVars, pipeVars, inputVars>>

SpecCred == InitCred /\ [][NextCred]_vars

(***************************************************************************)
(* Claims about the credentials (SpecCred)                                 *)
(***************************************************************************)
Resolved == setting.entry = "main" /\ kpc \in {"headers", "done"} /\ creds.kind = "return"

\* the exchange was answered with a non-empty token
ExchangeGaveToken ==
    /\ exchange.kind = "response"
    /\ ~RaisesForStatus(exchange.status)
    /\ exchange.body.t = "dict"
    /\ "iamToken" \in DOMAIN exchange.body.f
    /\ Truthy(exchange.body.f["iamToken"])

\* C8: _resolve_credentials returns (token, None), (None, key) or (None, None):
\* the session token of the flag or environment if there is one, else the API
\* key if there is one, else the token the OAuth exchange gave, and neither only
\* when all three are empty; the header is "Bearer <token>" or "Api-Key <key>".
C8_CredentialsExclusive ==
    Resolved =>
        /\ creds.iam_token = PyNone \/ creds.api_key = PyNone
        /\ Truthy(args.iam_token) =>
              /\ creds.iam_token = args.iam_token /\ creds.api_key = PyNone
              /\ exchange = NoOutcome
        /\ (~Truthy(args.iam_token) /\ Truthy(args.api_key)) =>
              /\ creds.iam_token = PyNone /\ creds.api_key = args.api_key
              /\ exchange = NoOutcome
        /\ (~Truthy(args.iam_token) /\ ~Truthy(args.api_key)) =>
              /\ creds.api_key = PyNone
              /\ IF ExchangeGaveToken
                 THEN creds.iam_token = exchange.body.f["iamToken"]
                 ELSE creds.iam_token = PyNone
        /\ (creds.iam_token = PyNone /\ creds.api_key = PyNone) =>
              ~Truthy(args.iam_token) /\ ~Truthy(args.api_key) /\ ~ExchangeGaveToken
        /\ kpc = "done" =>
              headers.auth =
                 IF creds.iam_token # PyNone THEN PyStr(<<"Bearer ">> \o creds.iam_token.s)
                 ELSE IF creds.api_key # PyNone THEN PyStr(<<"Api-Key ">> \o creds.api_key.s)
                 ELSE PyNone

\* no session token, an empty API key, and the exchange gives a token
C8_Witness ==
    /\ Resolved
    /\ kpc = "done"
    /\ args.iam_token = PyNone /\ args.api_key = PyStr(<<>>)
    /\ creds.iam_token = PyStr(<<"iam">>) /\ creds.api_key = PyNone
    /\ headers.auth = PyStr(<<"Bearer ", "iam">>)

\* the exchange failed: no OAuth token, no response, a status other than 200,
\* or a body that is not a JSON object with a token field
ExchangeFailed ==
    \/ exchange = NoOutcome
    \/ exchange.kind = "exception"
    \/ /\ exchange.kind = "response"
       /\ \/ exchange.status # 200
          \/ exchange.body.t # "dict"
          \/ "iamToken" \notin DOMAIN exchange.body.f

\* C9 (as claimed): get_iam_token returns "" and does not raise whenever the
\* exchange failed.
C9_FailureGivesEmptyToken ==
    (setting.entry = "get_iam_token" /\ kpc = "done" /\ ExchangeFailed) =>
        (creds.kind = "return" /\ creds.val = PyStr(<<>>))

(***************************************************************************)
(* The batch pipeline: main and process_file of yandex_ocr.py              *)
(***************************************************************************)
MaxPages == 2

ImageFile(name, stem) == [name |-> name, stem |-> stem, pdf |-> FALSE]
PdfFile(name, stem) == [name |-> name, stem |-> stem, pdf |-> TRUE]

\* the lists find_input_files may return; a.png and a.pdf share the stem a
Batches ==
    {<<>>,
     <<ImageFile("a.png", "a")>>,
     <<PdfFile("b.pdf", "b")>>,
     <<ImageFile("a.png", "a"), PdfFile("b.pdf", "b")>>,
     <<PdfFile("b.pdf", "b"), ImageFile("a.png", "a")>>,
     <<ImageFile("a.png", "a"), PdfFile("a.pdf", "a")>>,
     <<ImageFile("a.png", "a"), ImageFile("c.jpg", "c"), ImageFile("a.tif", "a")>>}

\* the input path: it does not resolve, or it resolves to the files of a batch
Inputs == {[found |-> FALSE, batch |-> <<>>]} \cup {[found |-> TRUE, batch |-> b] : b \in Batches}

\* the credentials of the command line and the environment
CredentialArgs ==
    {[iam_token |-> PyNone, api_key |-> PyNone, env_oauth |-> PyNone],
     [iam_token |-> PyNone, api_key |-> PyNone, env_oauth |-> PyStr(<<"oauth">>)],
     [iam_token |-> PyStr(<<"iam">>), api_key |-> PyStr(<<"key">>), env_oauth |-> PyNone],
     [iam_token |-> PyStr(<<>>), api_key |-> PyStr(<<"key">>), env_oauth |-> PyNone]}

\* the scratch directories a previous run may have left behind
Leftovers == SUBSET {"a", "b"}

\* what the IAM endpoint answers to main
MainIamOutcomes ==
    {TransportFailure, Response(200, Field("iamToken", PyStr(<<"iam">>))),
     Response(200, EmptyList)}

\* the text on page i of a file
PageText(file, i) == file.name \o "#" \o ToString(i)

\* a response of the service with one word
BodyWith(w) ==
    Field("results", PyList(<<SpecOf(<<Field("textDetection",
        Detection(<<Page(<<Block(<<Line(<<Word(<<w>>)>>)>>)>>)>>))>>)>>))

\* what the service answers to the request for a page image
PageOutcomes(w) ==
    {Response(200, BodyWith(w)), Response(200, EmptyDict), Response(500, NotJson),
     TransportFailure}

Init ==
    /\ mpc = "start"
    /\ \E c \in CredentialArgs, f \in {PyStr(<<>>), PyStr(<<"folder">>)},
          m \in BOOLEAN, i \in Inputs :
          margs = [iam_token |-> c.iam_token, api_key |-> c.api_key,
                   env_oauth |-> c.env_oauth, folder_id |-> f, merge_output |-> m,
                   input_path |-> i]
    /\ mcreds = Idle
    /\ exit_message = <<>>
    /\ outdir = FALSE
    /\ files = <<>>
    /\ idx = 0
    /\ npages = -1
    /\ pending = <<>>
    /\ images = <<>>
    /\ page_texts = <<>>
    /\ document = <<>>
    /\ scratch \in Leftovers
    /\ docs = <<>>
    /\ combined_results = <<>>
    /\ merged = Idle
    /\ log = <<>>
    /\ client = "none"
    /\ cpc = "idle"
    /\ call = Idle
    /\ script = <<>>
    /\ attempt = 0
    /\ delay = 0
    /\ events = <<>>
    /\ net = NoOutcome
    /\ outcome = Idle
    /\ kpc = "idle"
    /\ setting = Idle
    /\ args = Idle
    /\ exchange = Idle
    /\ creds = Idle
    /\ headers = Idle
    /\ InputIdle

\* raise SystemExit(message)
SystemExit(message) ==
    /\ mpc' = "exit"
    /\ exit_message' = message

\* yandex_ocr.py:422-430: main with the credentials _resolve_credentials gave
MainWith(r) ==
    /\ mcreds' = r
    /\ IF r.kind = "raise" THEN mpc' = "crashed" /\ exit_message' = <<"AttributeError">>
       ELSE IF ~Truthy(r.iam_token) /\ ~Truthy(r.api_key)
       THEN SystemExit(<<"No credentials provided">>)
       ELSE mpc' = "prepare" /\ exit_message' = exit_message

\* yandex_ocr.py:416-430
MainResolve ==
    /\ mpc = "start"
    /\ \E n \in MainIamOutcomes :
          MainWith(resolve_credentials(margs.iam_token, margs.api_key, margs.env_oauth,
                                       n, TRUE))
    /\ UNCHANGED <<margs, outdir, files, idx, npages, pending, images, page_texts,
                   document, scratch, docs, combined_results, merged, log>>

\* yandex_ocr.py:432-444: the output directory, the input files, the folder id
MainPrepare ==
    /\ mpc = "prepare"
    /\ outdir' = TRUE
    /\ IF ~margs.input_path.found
       THEN SystemExit(<<"Input path not found">>) /\ UNCHANGED <<files, idx>>
       ELSE IF margs.input_path.batch = <<>>
       THEN SystemExit(<<"No input files found">>) /\ UNCHANGED <<files, idx>>
       ELSE IF ~Truthy(margs.folder_id)
       THEN /\ SystemExit(<<"Folder ID is required">>)
            /\ files' = margs.input_path.batch
            /\ idx' = idx
       ELSE /\ mpc' = "loop"
            /\ exit_message' = exit_message
            /\ files' = margs.input_path.batch
            /\ idx' = 1
    /\ UNCHANGED <<margs, mcreds, npages, pending, images, page_texts, document,
                   scratch, docs, combined_results, merged, log>>

\* the record of a file main has finished with
Finished(result, why, returned) ==
    [file |-> files[idx], result |-> result, why |-> why, pages |-> npages,
     returned |-> returned, texts |-> page_texts, document |-> document]

\* the next iteration of the loop of main: the locals of process_file are gone
NextFile ==
    /\ idx' = idx + 1
    /\ mpc' = "loop"
    /\ npages' = -1
    /\ pending' = <<>>
    /\ images' = <<>>
    /\ page_texts' = <<>>
    /\ document' = <<>>

\* mutant: an exception of process_file is not caught
FileExceptionEscapes(why) ==
    /\ log' = Append(log, Finished("failed", why, FALSE))
    /\ idx' = idx
    /\ mpc' = "crashed"
    /\ npages' = -1
    /\ pending' = <<>>
    /\ images' = <<>>
    /\ page_texts' = <<>>
    /\ document' = <<>>
    /\ UNCHANGED <<margs, mcreds, exit_message, outdir, files, docs, combined_results, merged>>

\* yandex_ocr.py:455-456: process_file raised, "except Exception" logs it
FileException(why) ==
    /\ log' = Append(log, Finished("failed", why, FALSE))
    /\ NextFile
    /\ UNCHANGED <<margs, mcreds, exit_message, outdir, files, docs, combined_results, merged>>

\* yandex_ocr.py:446-451 and :263-265: the call of process_file
BeginFile ==
    /\ mpc = "loop"
    /\ idx <= Len(files)
    /\ images' = <<>>
    /\ IF files[idx].pdf
       THEN mpc' = "rasterize" /\ npages' = -1 /\ pending' = <<>>
       ELSE mpc' = "preprocess" /\ npages' = 1 /\ pending' = <<1>>
    /\ UNCHANGED <<margs, mcreds, exit_message, outdir, files, idx, page_texts, document,
                   scratch, docs, combined_results, merged, log>>

\* yandex_ocr.py:269: convert_from_path gives the pages of the PDF
Rasterize ==
    /\ mpc = "rasterize"
    /\ \E n \in 0..MaxPages :
          /\ npages' = n
          /\ pending' = [i \in 1..n |-> i]
          /\ mpc' = IF n = 0 THEN "ocr" ELSE "store"
    /\ UNCHANGED <<margs, mcreds, exit_message, outdir, files, idx, images, page_texts,
                   document, scratch, docs, combined_results, merged, log>>

\* yandex_ocr.py:269: convert_from_path raises (corrupt or unsupported PDF)
RasterizeFails ==
    /\ mpc = "rasterize"
    /\ FileException("convert_from_path")
    /\ UNCHANGED scratch

\* yandex_ocr.py:270-271: page.save(tmp_dir / "page_i.png") needs the scratch
\* directory, which only preprocess_image creates
StorePage ==
    /\ mpc = "store"
    /\ IF files[idx].stem \in scratch
       THEN /\ mpc' = "preprocess"
            /\ UNCHANGED <<margs, mcreds, exit_message, outdir, files, idx, npages, pending,
                           images, page_texts, document, docs, combined_results,
                           merged, log>>
       ELSE FileException("page.save")
    /\ UNCHANGED scratch

\* yandex_ocr.py:44-72: preprocess_image stored the enhanced page
Preprocess ==
    /\ mpc = "preprocess"
    /\ scratch' = scratch \cup {files[idx].stem}
    /\ images' = Append(images, Head(pending))
    /\ pending' = Tail(pending)
    /\ mpc' = IF Tail(pending) = <<>> THEN "ocr" ELSE "store"
    /\ UNCHANGED <<margs, mcreds, exit_message, outdir, files, idx, npages, page_texts,
                   document, docs, combined_results, merged, log>>

\* yandex_ocr.py:51: Image.open raises, before the scratch directory is made
PreprocessOpenFails ==
    /\ mpc = "preprocess"
    /\ FileException("Image.open")
    /\ UNCHANGED scratch

\* yandex_ocr.py:68-70: img.save raises, after the scratch directory is made
PreprocessSaveFails ==
    /\ mpc = "preprocess"
    /\ scratch' = scratch \cup {files[idx].stem}
    /\ FileException("img.save")

\* yandex_ocr.py:281: text or "[no text]"
TextOrPlaceholder(text) == IF text = <<>> THEN NoTextMarker ELSE text

\* yandex_ocr.py:281-283
AddPage(text) ==
    /\ page_texts' = Append(page_texts, text)
    /\ document' = Append(document, [heading |-> "Page " \o ToString(Len(page_texts) + 1),
                                     paragraph |-> text])
    /\ UNCHANGED <<margs, mcreds, exit_message, outdir, files, idx, npages, pending, images,
                   docs, combined_results, merged, log, mpc>>

\* the page after ocr_image ended as r
PageEnds(r) ==
    IF r.kind = "raise" THEN FileException("ocr_image")
    ELSE AddPage(TextOrPlaceholder(r.val))

\* yandex_ocr.py:278-284: one iteration of the loop over the images
OcrPage ==
    /\ mpc = "ocr"
    /\ Len(page_texts) < Len(images)
    /\ \E n \in PageOutcomes(PageText(files[idx], images[Len(page_texts) + 1])) :
          PageEnds(ocr_image(SmallFile, mcreds.iam_token, margs.folder_id,
                             mcreds.api_key, n))
    /\ UNCHANGED scratch

\* yandex_ocr.py:286-290 and :452-454: the document is saved, the scratch
\* directory removed, and main keeps the texts for the merged output
SaveDocument ==
    /\ mpc = "ocr"
    /\ Len(page_texts) = Len(images)
    /\ docs' = (files[idx].stem :> document) @@ docs
    /\ scratch' = scratch \ {files[idx].stem}
    /\ combined_results' =
          IF margs.merge_output
          THEN Append(combined_results, [file |-> files[idx], texts |-> page_texts])
          ELSE combined_results
    /\ log' = Append(log, Finished("ok", "", TRUE))
    /\ NextFile
    /\ UNCHANGED <<margs, mcreds, exit_message, outdir, files, merged>>

\* yandex_ocr.py:287-288: the output directory or the document cannot be written
SaveDocumentFails ==
    /\ mpc = "ocr"
    /\ Len(page_texts) = Len(images)
    /\ FileException("document.save")
    /\ UNCHANGED scratch

\* yandex_ocr.py:303-308: the headings and paragraphs of one file
RECURSIVE DocxPages(_, _)
DocxPages(texts, page_num) ==
    IF page_num > Len(texts) THEN <<>>
    ELSE <<[style |-> "h2", text |-> <<"Page " \o ToString(page_num)>>],
           [style |-> "p", text |-> texts[page_num]]>>
         \o DocxPages(texts, page_num + 1)

RECURSIVE CombinedDocx(_)
CombinedDocx(all_results) ==
    IF all_results = <<>> THEN <<>>
    ELSE <<[style |-> "h1", text |-> <<all_results[1].file.name>>]>>
         \o DocxPages(all_results[1].texts, 1)
         \o CombinedDocx(Tail(all_results))

\* yandex_ocr.py:308: "Page n\ntext\n"
RECURSIVE TxtPages(_, _)
TxtPages(texts, page_num) ==
    IF page_num > Len(texts) THEN <<>>
    ELSE <<(<<"Page " \o ToString(page_num), "\n">> \o texts[page_num] \o <<"\n">>)>>
         \o TxtPages(texts, page_num + 1)

RECURSIVE TxtLines(_)
TxtLines(all_results) ==
    IF all_results = <<>> THEN <<>>
    ELSE <<(<<all_results[1].file.name>>)>>
         \o TxtPages(all_results[1].texts, 1)
         \o TxtLines(Tail(all_results))

\* mutant: the pages are numbered from 0
RECURSIVE CsvPagesFromZero(_, _, _)
CsvPagesFromZero(name, texts, page_num) ==
    IF page_num > Len(texts) THEN <<>>
    ELSE <<[file |-> name, page |-> ToString(page_num - 1), text |-> texts[page_num]]>>
         \o CsvPagesFromZero(name, texts, page_num + 1)

\* yandex_ocr.py:322-323
RECURSIVE CsvPages(_, _, _)
CsvPages(name, texts, page_num) ==
    IF page_num > Len(texts) THEN <<>>
    ELSE <<[file |-> name, page |-> ToString(page_num), text |-> texts[page_num]]>>
         \o CsvPages(name, texts, page_num + 1)

RECURSIVE CsvRows(_)
CsvRows(all_results) ==
    IF all_results = <<>> THEN <<>>
    ELSE CsvPages(all_results[1].file.name, all_results[1].texts, 1)
         \o CsvRows(Tail(all_results))

\* save_combined_results(all_results, output_dir): all_text.docx, .txt, .csv
save_combined_results(all_results) ==
    [kind |-> "written",
     docx |-> CombinedDocx(all_results),
     txt |-> Join(<<"\n">>, TxtLines(all_results)),
     csv |-> <<[file |-> "file", page |-> "page", text |-> <<"text">>]>>
             \o CsvRows(all_results)]

\* mutant: the merged output is written whenever merging is on
MainMergeAlways ==
    /\ mpc = "loop"
    /\ idx > Len(files)
    /\ merged' = IF margs.merge_output
                 THEN save_combined_results(combined_results)
                 ELSE merged
    /\ mpc' = "done"
    /\ UNCHANGED <<margs, mcreds, exit_message, outdir, files, idx, npages, pending, images,
                   page_texts, document, scratch, docs, combined_results, log>>

\* yandex_ocr.py:458-459: the end of the loop and the merged output
MainMerge ==
    /\ mpc = "loop"
    /\ idx > Len(files)
    /\ merged' = IF margs.merge_output /\ combined_results # <<>>
                 THEN save_combined_results(combined_results)
                 ELSE merged
    /\ mpc' = "done"
    /\ UNCHANGED <<margs, mcreds, exit_message, outdir, files, idx, npages, pending, images,
                   page_texts, document, scratch, docs, combined_results, log>>

Next ==
    \/ MainResolve /\ UNCHANGED <<clientVars, credVars, inputVars>>
    \/ MainPrepare /\ UNCHANGED <<clientVars, credVars, inputVars>>
    \/ BeginFile /\ UNCHANGED <<clientVars, credVars, inputVars>>
    \/ Rasterize /\ UNCHANGED <<clientVars, credVars, inputVars>>
    \/ RasterizeFails /\ UNCHANGED <<clientVars, credVars, inputVars>>
    \/ StorePage /\ UNCHANGED <<clientVars, credVars, inputVars>>
    \/ Preprocess /\ UNCHANGED <<clientVars, credVars, inputVars>>
    \/ PreprocessOpenFails /\ UNCHANGED <<clientVars, credVars, inputVars>>
    \/ PreprocessSaveFails /\ UNCHANGED <<clientVars, credVars, inputVars>>
    \/ OcrPage /\ UNCHANGED <<clientVars, credVars, inputVars>>
    \/ SaveDocument /\ UNCHANGED <<clientVars, credVars, inputVars>>
    \/ SaveDocumentFails /\ UNCHANGED <<clientVars, credVars, inputVars>>
    \/ MainMerge /\ UNCHANGED <<clientVars, credVars, inputVars>>

Spec == Init /\ [][Next]_vars

(***************************************************************************)
(* Claims about the batch pipeline (Spec)                                  *)
(***************************************************************************)
\* what ocr_image returns for a page it could not read
PageFailureMarkers ==
    {NoResultsMarker, NoTextMarker, ExtractionErrorMarker, ParseErrorMarker,
     RequestErrorMarker, StatusErrorMarker(500)}

\* the i-th entry and the i-th heading/paragraph pair of r belong to page i
EntryOfPage(r, i) ==
    /\ r.texts[i] \in {<<PageText(r.file, i)>>} \cup PageFailureMarkers
    /\ r.document[i] = [heading |-> "Page " \o ToString(i), paragraph |-> r.texts[i]]

\* C4 (as claimed): a file with N pages yields exactly N entries and N
\* heading/paragraph pairs, the i-th of page i, also when a page fails.
C4_OneEntryPerPage ==
    \A k \in DOMAIN log :
        log[k].pages >= 0 =>
            /\ log[k].returned
            /\ Len(log[k].texts) = log[k].pages
            /\ Len(log[k].document) = log[k].pages
            /\ \A i \in 1..log[k].pages : EntryOfPage(log[k], i)

\* the texts main kept of the files that were processed
RECURSIVE ResultsOf(_)
ResultsOf(records) ==
    IF records = <<>> THEN <<>>
    ELSE IF Head(records).result = "ok"
    THEN <<[file |-> Head(records).file, texts |-> Head(records).texts]>>
         \o ResultsOf(Tail(records))
    ELSE ResultsOf(Tail(records))

\* C5: a file that fails does not end the run: main has finished with the
\* files before the current one, in the order of the list, whatever happened
\* to them; once it is done it has finished with every file, and the merged
\* output holds the files that were processed (it is written when merging is
\* on and there is one).
C5_BatchSurvivesFileFailure ==
    /\ mpc = "crashed" => log = <<>>
    /\ Len(log) <= Len(files)
    /\ \A k \in DOMAIN log : log[k].file = files[k]
    /\ mpc \in {"loop", "rasterize", "store", "preprocess", "ocr"} => Len(log) = idx - 1
    /\ mpc = "done" =>
          /\ Len(log) = Len(files)
          /\ merged = IF margs.merge_output /\ ResultsOf(log) # <<>>
                      THEN save_combined_results(ResultsOf(log))
                      ELSE Idle

\* the rasterization of the first file failed, the second file was processed
\* and the merged output written
C5_Witness ==
    /\ mpc = "done"
    /\ Len(log) = 2
    /\ log[1].result = "failed" /\ log[1].why = "convert_from_path"
    /\ log[2].result = "ok"
    /\ merged # Idle
    /\ merged.csv[2].file = "a.png"

\* C6 (as claimed): once main has finished with a file, the scratch directory
\* of that file does not exist.
C6_ScratchRemoved ==
    (mpc \in {"loop", "done"} /\ idx > 1) => files[idx - 1].stem \notin scratch
\* the pages of the first k files of a list of results
RECURSIVE PagesBefore(_, _)
PagesBefore(all_results, k) ==
    IF k = 0 THEN 0 ELSE PagesBefore(all_results, k - 1) + Len(all_results[k].texts)

\* the length of the first i page entries of all_text.txt for one file:
\* "Page n", a line break, the text, a line break, and the separator
RECURSIVE TxtPagesLen(_, _)
TxtPagesLen(texts, i) ==
    IF i = 0 THEN 0 ELSE TxtPagesLen(texts, i - 1) + Len(texts[i]) + 4

\* the length of what the first k files take in all_text.txt
RECURSIVE TxtFilesLen(_, _)
TxtFilesLen(all_results, k) ==
    IF k = 0 THEN 0
    ELSE TxtFilesLen(all_results, k - 1) + 2
         + TxtPagesLen(all_results[k].texts, Len(all_results[k].texts))

\* where the entry of page i of file k starts in all_text.txt
TxtPageStart(all_results, k, i) ==
    TxtFilesLen(all_results, k - 1) + 2 + TxtPagesLen(all_results[k].texts, i - 1) + 1

\* where the heading of file k stands in all_text.docx
DocxFileStart(all_results, k) == k + 2 * PagesBefore(all_results, k - 1)

\* C13: all_text.csv holds the header and then one row (file name, page
\* number from 1, text) per page of the accumulated files, file after file and
\* page after page; all_text.docx and all_text.txt hold the same pages, under
\* the name of their file, in the same order.
C13_MergedRowsPerPage ==
    merged.kind = "written" =>
        /\ merged.csv[1] = [file |-> "file", page |-> "page", text |-> <<"text">>]
        /\ Len(merged.csv) = 1 + PagesBefore(combined_results, Len(combined_results))
        /\ Len(merged.docx) = Len(combined_results)
              + 2 * PagesBefore(combined_results, Len(combined_results))
        /\ Len(merged.txt) = TxtFilesLen(combined_results, Len(combined_results)) - 1
        /\ \A k \in DOMAIN combined_results :
              /\ merged.docx[DocxFileStart(combined_results, k)]
                    = [style |-> "h1", text |-> <<combined_results[k].file.name>>]
              /\ merged.txt[TxtFilesLen(combined_results, k - 1) + 1]
                    = combined_results[k].file.name
              /\ \A i \in DOMAIN combined_results[k].texts :
                    /\ merged.csv[1 + PagesBefore(combined_results, k - 1) + i]
                          = [file |-> combined_results[k].file.name, page |-> ToString(i),
                             text |-> combined_results[k].texts[i]]
                    /\ merged.docx[DocxFileStart(combined_results, k) + 2 * i - 1]
                          = [style |-> "h2", text |-> <<"Page " \o ToString(i)>>]
                    /\ merged.docx[DocxFileStart(combined_results, k) + 2 * i]
                          = [style |-> "p", text |-> combined_results[k].texts[i]]
                    /\ SubSeq(merged.txt, TxtPageStart(combined_results, k, i),
                              TxtPageStart(combined_results, k, i)
                                + Len(combined_results[k].texts[i]) + 2)
                          = <<"Page " \o ToString(i), "\n">>
                            \o combined_results[k].texts[i] \o <<"\n">>

\* a file of 2 pages and a file of 1 page: 3 data rows
C13_Witness ==
    /\ merged.kind = "written"
    /\ Len(combined_results) = 2
    /\ Len(combined_results[1].texts) = 2
    /\ Len(combined_results[2].texts) = 1
    /\ Len(merged.csv) = 4
    /\ merged.csv[3] = [file |-> "b.pdf", page |-> "2", text |-> <<"b.pdf#2">>]
    /\ merged.csv[4] = [file |-> "a.png", page |-> "1", text |-> <<"a.png#1">>]

\* the run ended with a configuration error
ConfigurationExit ==
    /\ mpc = "exit"
    /\ exit_message \in {<<"No credentials provided">>, <<"Folder ID is required">>}

\* C15 (as claimed): a run that ends with a configuration error (no
\* credentials, no folder id) has not created the output directory, has not
\* looked for input files and has processed and written nothing.
C15_ConfigurationErrorsFirst ==
    ConfigurationExit =>
        /\ ~outdir
        /\ files = <<>>
        /\ log = <<>>
        /\ docs = <<>>
        /\ merged = Idle

\* C16 (as claimed): no file of the run shares its output document with
\* another one: the document of every file that was processed is on disk, at
\* the path of that file, as it was written.
C16_DocumentsKept ==
    \A k \in DOMAIN log :
        log[k].result = "ok" =>
            /\ log[k].file.stem \in DOMAIN docs
            /\ docs[log[k].file.stem] = log[k].document

\* the paragraphs of a document
Paragraphs(doc) == [i \in DOMAIN doc |-> doc[i].paragraph]

\* some file of the run was processed without an exception
SomeProcessed == \E k \in DOMAIN log : log[k].result = "ok"

\* C17: with merging on, combined_results holds the files that were processed
\* without an exception, once each and in the order of the input, each with
\* the texts that are the paragraphs of its document, and nothing of a file
\* that failed; without merging it stays empty; the merged output is written
\* at the end of the run if and only if merging is on and a file was processed.
C17_AccumulatedResults ==
    /\ mpc \notin {"start", "idle"} =>
          combined_results = IF margs.merge_output THEN ResultsOf(log) ELSE <<>>
    /\ \A k \in DOMAIN log :
          log[k].result = "ok" => Paragraphs(log[k].document) = log[k].texts
    /\ \A j, k \in DOMAIN combined_results :
          j < k => \E m, n \in DOMAIN files :
                      /\ m < n
                      /\ files[m] = combined_results[j].file
                      /\ files[n] = combined_results[k].file
    /\ merged # Idle => (mpc = "done" /\ margs.merge_output /\ SomeProcessed)
    /\ (mpc = "done" /\ margs.merge_output /\ SomeProcessed) =>
          merged = save_combined_results(combined_results)

\* three files, the second failed: the first and the third are accumulated
C17_Witness ==
    /\ mpc = "done"
    /\ Len(log) = 3
    /\ log[2].result = "failed"
    /\ Len(combined_results) = 2
    /\ combined_results[1].file.name = "a.png"
    /\ combined_results[2].file.name = "a.tif"
    /\ combined_results[2].texts = <<(<<"a.tif#1">>)>>
    /\ merged.kind = "written"

(***************************************************************************)
(* Input resolution: resolve_input of yandex_ocr.py.  A name is a sequence *)
(* of characters, a path the sequence of its parts, relative to the        *)
(* current working directory.                                              *)
(***************************************************************************)
\* the entries that may exist under the working directory: a, ab and the
\* directory d, and a, ab, a? and b inside d
TopEntries == {<<(<<"a">>)>>, <<(<<"a", "b">>)>>, <<(<<"d">>)>>}
InnerEntries ==
    {<<(<<"d">>), (<<"a">>)>>, <<(<<"d">>), (<<"a", "b">>)>>,
     <<(<<"d">>), (<<"a", "?">>)>>, <<(<<"d">>), (<<"b">>)>>}

\* an entry inside d needs d
Trees ==
    {t \in SUBSET (TopEntries \cup InnerEntries) :
        (t \cap InnerEntries # {}) => <<(<<"d">>)>> \in t}

\* the paths resolve_input is called with
Targets ==
    {<<(<<"a">>)>>, <<(<<"a", "b">>)>>, <<(<<"b">>)>>, <<(<<"a", "?">>)>>,
     <<(<<"*">>)>>, <<(<<"d">>)>>,
     <<(<<"d">>), (<<"a">>)>>, <<(<<"d">>), (<<"b">>)>>, <<(<<"b">>), (<<"a">>)>>}

\* fnmatch of a name against a pattern: "*" stands for any characters, "?"
\* for one
RECURSIVE GlobMatch(_, _)
GlobMatch(pattern, name) ==
    IF pattern = <<>> THEN name = <<>>
    ELSE IF Head(pattern) = "*"
    THEN GlobMatch(Tail(pattern), name)
         \/ (name # <<>> /\ GlobMatch(pattern, Tail(name)))
    ELSE /\ name # <<>>
         /\ Head(pattern) = "?" \/ Head(pattern) = Head(name)
         /\ GlobMatch(Tail(pattern), Tail(name))

\* yandex_ocr.py:228: len(path.parts) == 1
SinglePart(path) == Len(path) = 1

\* Path.cwd().rglob(pattern): the entries of the tree whose name matches
RGlob(tree, pattern) == {e \in tree : GlobMatch(pattern, e[Len(e)])}

\* path.name
NameOf(path) == path[Len(path)]

InitResolve ==
    /\ rpc = "call"
    /\ cwd_tree \in Trees
    /\ target \in Targets
    /\ searched = FALSE
    /\ resolution = Idle
    /\ client = "none"
    /\ cpc = "idle"
    /\ call = Idle
    /\ script = <<>>
    /\ attempt = 0
    /\ delay = 0
    /\ events = <<>>
    /\ net = NoOutcome
    /\ outcome = Idle
    /\ kpc = "idle"
    /\ setting = Idle
    /\ args = Idle
    /\ exchange = Idle
    /\ creds = Idle
    /\ headers = Idle
    /\ PipeIdle

\* yandex_ocr.py:216-233, resolve_input(path): matches[0] is any of the
\* matches, the order of the walk not being fixed
ResolveInput ==
    /\ rpc = "call"
    /\ rpc' = "done"
    /\ IF target \in cwd_tree
       THEN /\ resolution' = [kind |-> "return", path |-> target]
            /\ searched' = FALSE
       ELSE IF SinglePart(target)
       THEN /\ searched' = TRUE
            /\ IF RGlob(cwd_tree, NameOf(target)) # {}
               THEN \E m \in RGlob(cwd_tree, NameOf(target)) :
                       resolution' = [kind |-> "return", path |-> m]
               ELSE resolution' = [kind |-> "raise", path |-> target]
       ELSE /\ resolution' = [kind |-> "raise", path |-> target]
            /\ searched' = FALSE
    /\ UNCHANGED <<cwd_tree, target>>

NextResolve ==
    \/ ResolveInput /\ UNCHANGED <<clientVars, credVars, pipeVars>>

SpecResolve == InitResolve /\ [][NextResolve]_vars

(***************************************************************************)
(* Claims about the input resolution (SpecResolve)                         *)
(***************************************************************************)
\* the entries of the tree with exactly the name of the target
NamedAlike == {e \in cwd_tree : e[Len(e)] = NameOf(target)}

\* C14 (as claimed): an existing path is returned as it is; a path that does
\* not exist and has one part is searched for in the tree, and an entry of
\* exactly that name is returned, or not-found raised if there is none; a
\* path that does not exist and has several parts raises not-found without a
\* search.
C14_InputResolved ==
    rpc = "done" =>
        /\ target \in cwd_tree =>
              resolution = [kind |-> "return", path |-> target] /\ ~searched
        /\ (target \notin cwd_tree /\ Len(target) = 1) =>
              /\ searched
              /\ IF NamedAlike # {}
                 THEN resolution.kind = "return" /\ resolution.path \in NamedAlike
                 ELSE resolution = [kind |-> "raise", path |-> target]
        /\ (target \notin cwd_tree /\ Len(target) > 1) =>
              resolution = [kind |-> "raise", path |-> target] /\ ~searched

====
